---- MODULE Spec2Model ----
(***************************************************************************)
(* Topology discovery engine of aws-network-visualizer: the collection     *)
(* orchestrator (CollectorManager, BaseCollector), the retry wrapper       *)
(* (utils/retry.py) and the token-bucket rate limiters                     *)
(* (utils/rate_limiter.py).                                                *)
(*                                                                         *)
(* Each subsystem has its own specification over the shared variable       *)
(* tuple; the variables of the other subsystems stay at their idle values. *)
(***************************************************************************)
EXTENDS Integers, Sequences, FiniteSets, TLC

VARIABLES
    \* ---- CollectorManager.collect_all ----
    regions,            \* self.regions, a list of region names
    resource_types,     \* the resource_types argument, a list
    max_concurrent,     \* self.max_concurrent
    semaphore,          \* free permits of the asyncio.Semaphore
    taskPc,             \* per task: "pending" | "running" | "done"
    taskOut,            \* per task: what collect() and the task produced
    mgrPc,              \* "gathering" | "returned" | "raised" | "idle"
    results_by_region,  \* the map collect_all returns
    \* ---- async_retry_with_backoff wrapper ----
    retryFunc,          \* the decorated function
    max_attempts,       \* decorator argument / settings.max_retry_attempts
    attempt,            \* loop variable of "for attempt in range(...)"
    retryPc,            \* "call" | "sleep" | "after_loop" | "returned" |
                        \* "raised" | "idle"
    history,            \* outcomes of the remote calls made so far
    delays,             \* number of backoff sleeps taken so far
    raisedErr,          \* the exception that left the wrapper
    raisedExc,          \* error_code and details of the exception object the
                        \* wrapper constructed and raised
    \* ---- token bucket (RateLimiter / AsyncRateLimiter) ----
    rate,               \* self.rate, in token units per tick
    burst,              \* self.burst, in tokens
    tokens,             \* self.tokens, in token units
    \* ---- AsyncRateLimiter.acquire, coroutines of one event loop ----
    sinceUpdate,        \* time.time() - self.last_update, in ticks
    lock,               \* owner of self._lock, or None
    cpc,                \* per coroutine: "idle" | "entered" | "spin" | "done"
    ccost,              \* per coroutine: the tokens argument
    cblocking,          \* per coroutine: the blocking argument
    cresult,            \* per coroutine: what acquire returned ("True",
                        \* "False") or None
    winOpen,            \* an observation window is open
    winTicks,           \* length of the open window so far
    winAdmitted,        \* acquisitions that returned true in the window
    \* ---- RateLimiter.acquire, threads ----
    clock,              \* time.time(), in ticks
    last_update,        \* self.last_update
    tpc,                \* per thread: the line it is about to execute
    tnow,               \* per thread: local now
    telapsed,           \* per thread: local elapsed
    tcost,              \* per thread: the tokens argument
    tblocking,          \* per thread: the blocking argument
    twake,              \* per thread: the tick at which time.sleep ends
    admitted,           \* token units handed out by acquire so far
    \* topology graph
    gInput,             \* the Collection Results handed to build_graph
    gPc,                \* input, built, rebuilt or analyzed
    graph,              \* the DiGraph of the last NetworkGraph returned
    firstGraph,         \* the DiGraph the first build_graph call returned
    nodePassNodes,      \* the node ids when the last node pass ended
    report,             \* what the GraphAnalyzer call returned
    \* ---- CollectorManager.get_summary ----
    sResults,           \* the results argument, region -> list of results
    sPc,                \* "building" | "summarized" | "idle"
    summary,            \* the dictionary get_summary returned
    \* ---- CollectorManager.collect_region ----
    rRegion,            \* the region argument
    rTypes,             \* the resource_types argument, a list
    rMaxConcurrent,     \* self.max_concurrent
    rTaskPc,            \* per task: "pending" | "running" | "done"
    rTaskOut,           \* per task: the value the task yields to gather
    rPc,                \* "gathering" | "returned" | "idle"
    rReturn             \* the list collect_region returns

collectVars == <<regions, resource_types, max_concurrent, semaphore,
                 taskPc, taskOut, mgrPc, results_by_region>>

retryVars == <<retryFunc, max_attempts, attempt, retryPc, history, delays,
               raisedErr, raisedExc>>

bucketVars == <<rate, burst, tokens>>

asyncVars == <<sinceUpdate, lock, cpc, ccost, cblocking, cresult,
               winOpen, winTicks, winAdmitted>>

syncVars == <<clock, last_update, tpc, tnow, telapsed, tcost, tblocking,
              twake, admitted>>

graphVars == <<gInput, gPc, graph, firstGraph, nodePassNodes, report>>

summaryVars == <<sResults, sPc, summary>>

regionVars == <<rRegion, rTypes, rMaxConcurrent, rTaskPc, rTaskOut, rPc,
                rReturn>>

vars == <<collectVars, retryVars, bucketVars, asyncVars, syncVars, graphVars,
          summaryVars, regionVars>>

nonRegionVars == <<collectVars, retryVars, bucketVars, asyncVars, syncVars,
                   graphVars, summaryVars>>

nonCollectVars == <<retryVars, bucketVars, asyncVars, syncVars,
                     graphVars, summaryVars, regionVars>>

nonRetryVars == <<collectVars, bucketVars, asyncVars, syncVars,
                   graphVars, summaryVars, regionVars>>

nonAsyncVars == <<collectVars, retryVars, syncVars,
                   graphVars, summaryVars, regionVars>>

nonSyncVars == <<collectVars, retryVars, asyncVars,
                  graphVars, summaryVars, regionVars>>

nonGraphVars == <<collectVars, retryVars, bucketVars, asyncVars, syncVars,
                   summaryVars, regionVars>>

nonSummaryVars == <<collectVars, retryVars, bucketVars, asyncVars, syncVars,
                     graphVars, regionVars>>

None == "None"

(***************************************************************************)
(* Bounds                                                                  *)
(***************************************************************************)
NumRegions == 2
MaxConcurrentBound == 2
MaxAttemptsBound == 3
TokenScale == 2         \* token units per token
MaxRate == 3            \* largest rate, in token units per tick
MaxBurst == 2           \* largest explicit burst argument
MaxCost == 2            \* largest tokens argument of acquire
NumCallers == 2         \* coroutines calling acquire
MaxWindow == 3          \* longest observation window, in ticks
MaxClock == 2           \* last tick of the threads' clock
MaxRecords == 2         \* resource records in the input of build_graph
MaxSummaryResults == 2  \* results in the map handed to get_summary

(***************************************************************************)
(* Generic helpers                                                         *)
(***************************************************************************)
RECURSIVE SubSeq2(_, _, _)
\* the subsequence of s (from index i on) of the elements that are in S
SubSeq2(s, i, S) ==
    IF i > Len(s) THEN <<>>
    ELSE (IF s[i] \in S THEN <<s[i]>> ELSE <<>>) \o SubSeq2(s, i + 1, S)

Range(s) == {s[i] : i \in 1..Len(s)}

(***************************************************************************)
(* Retry wrapper (utils/retry.py) around a raw operation or around         *)
(* BaseCollector._paginated_call                                           *)
(***************************************************************************)
\* RETRIABLE_ERROR_CODES
RETRIABLE_ERROR_CODES ==
    {"RequestLimitExceeded", "Throttling", "ThrottlingException",
     "TooManyRequestsException", "ProvisionedThroughputExceededException",
     "RequestThrottledException", "ServiceUnavailable", "InternalError",
     "InternalFailure"}

\* the codes the wrapper turns into RateLimitException
RATE_LIMIT_CODES == {"RequestLimitExceeded", "Throttling"}

\* error codes a remote call may fail with ("AccessDenied" stands for the
\* codes outside RETRIABLE_ERROR_CODES)
ErrorCodes == RETRIABLE_ERROR_CODES \cup {"AccessDenied"}

Ok == [type |-> "ok", code |-> None]
ClientError(code) == [type |-> "ClientError", code |-> code]
\* an exception that is not a ClientError (e.g. a botocore connection error)
OtherError == [type |-> "OtherError", code |-> None]

\* what one call of the remote API does
RemoteOutcomes == {Ok, OtherError} \cup {ClientError(c) : c \in ErrorCodes}

\* BaseCollector._paginated_call (the undecorated body): a ClientError of
\* the paginator is re-raised as CollectorException carrying the code
PaginatedCall(remote) ==
    IF remote.type = "ClientError"
    THEN [type |-> "CollectorException", code |-> remote.code]
    ELSE remote

\* the function the decorator wraps, applied to one remote outcome
Func(f, remote) ==
    IF f = "_paginated_call" THEN PaginatedCall(remote) ELSE remote

\* "except retriable_exceptions as e" with the default (ClientError,)
CaughtByWrapper(e) == e.type = "ClientError"

\* is_retriable_error
is_retriable_error_Always(e) == TRUE

is_retriable_error(e) ==
    IF e.type = "ClientError" THEN e.code \in RETRIABLE_ERROR_CODES
    ELSE FALSE

RateLimitException == [type |-> "RateLimitException", code |-> None]
RetryExhausted == [type |-> "RetryExhausted", code |-> None]
NoError == [type |-> None, code |-> None]

\* A dict is a set of <<key, value>> pairs with string values; keyword
\* arguments are a function from the names passed to their values.
DetailsKwarg(d) == [k \in {"details"} |-> d]

\* kwargs.pop(key, default): the value, and what is left of kwargs
PopValue(kwargs, key, default) ==
    IF key \in DOMAIN kwargs THEN kwargs[key] ELSE default
PopRest(kwargs, key) == [k \in DOMAIN kwargs \ {key} |-> kwargs[k]]

\* d[key] = value on a dict
SetItem(d, key, value) == {p \in d : p[1] # key} \cup {<<key, value>>}

\* NetworkVisualizerException.__init__
NetworkVisualizerException_init(error_code, details) ==
    [error_code |-> IF error_code = None THEN "UNKNOWN_ERROR" ELSE error_code,
     details |-> details]

\* CollectorException.__init__ called with keyword arguments only (no
\* resource_type, no resource_id)
CollectorException_init(kwargs) ==
    LET details == PopValue(kwargs, "details", {})
    IN  NetworkVisualizerException_init("COLLECTOR_ERROR", details)

\* RetryExhausted.__init__: the local dict details never reaches super()
RetryExhausted_init(attempts, kwargs) ==
    LET details == SetItem(PopValue(kwargs, "details", {}),
                           "retry_attempts", ToString(attempts))
        base == CollectorException_init(PopRest(kwargs, "details"))
    IN  [base EXCEPT !.error_code = "RETRY_EXHAUSTED"]

\* RateLimitException.__init__ called without service
RateLimitException_init(kwargs) ==
    LET details == PopValue(kwargs, "details", {})
        base == CollectorException_init(PopRest(kwargs, "details"))
    IN  [base EXCEPT !.error_code = "RATE_LIMIT_ERROR"]

\* no exception object constructed by the wrapper
NoExc == [error_code |-> None, details |-> {}]

\* str(last_exception): the error code stands for the error's text
StrOf(e) == IF e.code = None THEN e.type ELSE e.code

RetryIdle ==
    /\ retryFunc = None
    /\ max_attempts = 0
    /\ attempt = 0
    /\ retryPc = "idle"
    /\ history = <<>>
    /\ delays = 0
    /\ raisedErr = NoError
    /\ raisedExc = NoExc

\* the wrapper is entered: last_exception = None, the for loop starts
RetryInit ==
    /\ retryFunc \in {"operation", "_paginated_call"}
    /\ max_attempts \in 0..MaxAttemptsBound
    /\ attempt = 0
    /\ retryPc = IF max_attempts > 0 THEN "call" ELSE "after_loop"
    /\ history = <<>>
    /\ delays = 0
    /\ raisedErr = NoError
    /\ raisedExc = NoExc

\* "if attempt == max_attempts - 1: break"
LastAttempt_Never(a, m) == FALSE

LastAttempt(a, m) == a = m - 1

\* one iteration of the loop body up to its return, raise, break or sleep
Invoke ==
    /\ retryPc = "call"
    /\ \E remote \in RemoteOutcomes :
         LET e == Func(retryFunc, remote)
         IN  /\ history' = Append(history, remote)
             /\ IF e.type = "ok"
                THEN /\ retryPc' = "returned"
                     /\ UNCHANGED <<raisedErr, raisedExc>>
                ELSE IF ~CaughtByWrapper(e)
                THEN /\ retryPc' = "raised"
                     /\ raisedErr' = e
                     /\ UNCHANGED raisedExc
                ELSE IF ~is_retriable_error(e)
                THEN /\ retryPc' = "raised"
                     /\ raisedErr' = e
                     /\ UNCHANGED raisedExc
                ELSE IF e.code \in RATE_LIMIT_CODES
                THEN /\ retryPc' = "raised"
                     /\ raisedErr' = RateLimitException
                     /\ raisedExc' = RateLimitException_init(
                                         DetailsKwarg({<<"error", StrOf(e)>>}))
                ELSE IF LastAttempt(attempt, max_attempts)
                THEN /\ retryPc' = "after_loop"
                     /\ UNCHANGED <<raisedErr, raisedExc>>
                ELSE /\ retryPc' = "sleep"
                     /\ UNCHANGED <<raisedErr, raisedExc>>
    /\ UNCHANGED <<retryFunc, max_attempts, attempt, delays>>
    /\ UNCHANGED nonRetryVars

\* await asyncio.sleep(delay), then the loop header: the next iteration,
\* or the end of range(max_attempts)
Sleep ==
    /\ retryPc = "sleep"
    /\ delays' = delays + 1
    /\ attempt' = attempt + 1
    /\ retryPc' = IF attempt + 1 < max_attempts THEN "call" ELSE "after_loop"
    /\ UNCHANGED <<retryFunc, max_attempts, history, raisedErr, raisedExc>>
    /\ UNCHANGED nonRetryVars

\* str(last_exception) after the loop; last_exception is None when the
\* loop body never ran
LastErrorText ==
    IF history = <<>> THEN None
    ELSE StrOf(Func(retryFunc, history[Len(history)]))

\* the statement after the loop: raise RetryExhausted(...,
\* attempts=max_attempts, details={"last_error": str(last_exception)})
RaiseRetryExhausted ==
    /\ retryPc = "after_loop"
    /\ retryPc' = "raised"
    /\ raisedErr' = RetryExhausted
    /\ raisedExc' = RetryExhausted_init(
                        max_attempts,
                        DetailsKwarg({<<"last_error", LastErrorText>>}))
    /\ UNCHANGED <<retryFunc, max_attempts, attempt, history, delays>>
    /\ UNCHANGED nonRetryVars

NextRetry ==
    \/ Invoke
    \/ Sleep
    \/ RaiseRetryExhausted


(***************************************************************************)
(* Token bucket rate limiters (utils/rate_limiter.py).  Time advances in   *)
(* ticks; rate is counted in token units per tick and tokens in units of   *)
(* 1/TokenScale token, so rate = 1 with TokenScale = 2 is half a token per *)
(* tick.                                                                   *)
(***************************************************************************)
Min(a, b) == IF a <= b THEN a ELSE b

\* int(rate)
IntOfRate(r) == r \div TokenScale

\* __init__: self.burst = burst or int(rate); 0 stands for None
DefaultBurst(burstArg, r) == IF burstArg # 0 THEN burstArg ELSE IntOfRate(r)

\* self.tokens = min(self.burst, self.tokens + elapsed * self.rate)
Refill(tk, elapsed) == Min(burst * TokenScale, tk + elapsed * rate)

\* an acquire that hands out tokens without taking them off the bucket
Deduct_Keep(tk, cost) == tk

\* self.tokens -= tokens
Deduct(tk, cost) == tk - cost * TokenScale

\* if self.tokens >= tokens
Enough(tk, cost) == tk >= cost * TokenScale

BucketIdle ==
    /\ rate = 0
    /\ burst = 0
    /\ tokens = 0

\* RateLimiter.__init__ / AsyncRateLimiter.__init__
BucketInit ==
    /\ rate \in 1..MaxRate
    /\ \E burstArg \in 0..MaxBurst : burst = DefaultBurst(burstArg, rate)
    /\ tokens = burst * TokenScale

(***************************************************************************)
(* AsyncRateLimiter.acquire.  Coroutines run on one event loop: a          *)
(* coroutine runs alone until it awaits.  asyncio.Lock.acquire does not    *)
(* suspend when the lock is free, and the while loop contains no await,    *)
(* so a caller that entered the loop keeps the event loop until it         *)
(* returns; the clock goes on while it loops.                              *)
(***************************************************************************)
Callers == 1..NumCallers

\* ticks after which a refill fills any bucket: later ticks change nothing
SinceCap == MaxBurst * TokenScale

InLoop(c) == cpc[c] \in {"entered", "spin"}

AsyncIdle ==
    /\ sinceUpdate = 0
    /\ lock = 0
    /\ cpc = <<>>
    /\ ccost = <<>>
    /\ cblocking = <<>>
    /\ cresult = <<>>
    /\ winOpen = FALSE
    /\ winTicks = 0
    /\ winAdmitted = 0

AsyncInit ==
    /\ sinceUpdate = 0
    /\ lock = 0
    /\ cpc = [c \in Callers |-> "idle"]
    /\ ccost = [c \in Callers |-> 0]
    /\ cblocking = [c \in Callers |-> FALSE]
    /\ cresult = [c \in Callers |-> None]
    /\ winOpen = FALSE
    /\ winTicks = 0
    /\ winAdmitted = 0

\* a coroutine calls acquire(tokens, blocking) and enters "async with
\* self._lock"
Enter(c) ==
    /\ cpc[c] = "idle"
    /\ \A d \in Callers : ~InLoop(d)
    /\ lock = 0
    /\ lock' = c
    /\ cpc' = [cpc EXCEPT ![c] = "entered"]
    /\ \E cost \in 1..MaxCost : ccost' = [ccost EXCEPT ![c] = cost]
    /\ \E b \in BOOLEAN : cblocking' = [cblocking EXCEPT ![c] = b]
    /\ UNCHANGED <<sinceUpdate, cresult, winOpen, winTicks, winAdmitted>>
    /\ UNCHANGED bucketVars
    /\ UNCHANGED nonAsyncVars

\* one pass through the body of "while True"
Iterate(c) ==
    /\ InLoop(c)
    /\ LET refilled == Refill(tokens, sinceUpdate)
       IN  /\ sinceUpdate' = 0
           /\ IF Enough(refilled, ccost[c])
              THEN /\ tokens' = Deduct(refilled, ccost[c])
                   /\ cresult' = [cresult EXCEPT ![c] = "True"]
                   /\ cpc' = [cpc EXCEPT ![c] = "done"]
                   /\ lock' = 0
                   /\ winAdmitted' = IF winOpen THEN winAdmitted + 1
                                     ELSE winAdmitted
              ELSE IF ~cblocking[c]
              THEN /\ tokens' = refilled
                   /\ cresult' = [cresult EXCEPT ![c] = "False"]
                   /\ cpc' = [cpc EXCEPT ![c] = "done"]
                   /\ lock' = 0
                   /\ UNCHANGED winAdmitted
              ELSE \* wait_time is computed and the loop goes round; the
                   \* sleep after the "async with" block is never reached
                   /\ tokens' = refilled
                   /\ cpc' = [cpc EXCEPT ![c] = "spin"]
                   /\ UNCHANGED <<cresult, lock, winAdmitted>>
    /\ UNCHANGED <<rate, burst, ccost, cblocking, winOpen, winTicks>>
    /\ UNCHANGED nonAsyncVars

\* the caller of acquire goes on and may call acquire again
Reset(c) ==
    /\ cpc[c] = "done"
    /\ cpc' = [cpc EXCEPT ![c] = "idle"]
    /\ ccost' = [ccost EXCEPT ![c] = 0]
    /\ cblocking' = [cblocking EXCEPT ![c] = FALSE]
    /\ cresult' = [cresult EXCEPT ![c] = None]
    /\ UNCHANGED <<sinceUpdate, lock, winOpen, winTicks, winAdmitted>>
    /\ UNCHANGED bucketVars
    /\ UNCHANGED nonAsyncVars

\* the wall clock advances by one tick; a window that reached MaxWindow
\* ticks is closed
Tick ==
    /\ sinceUpdate' = Min(sinceUpdate + 1, SinceCap)
    /\ IF winOpen /\ winTicks < MaxWindow
       THEN /\ winTicks' = winTicks + 1
            /\ UNCHANGED <<winOpen, winAdmitted>>
       ELSE /\ winOpen' = FALSE
            /\ winTicks' = 0
            /\ winAdmitted' = 0
    /\ UNCHANGED <<lock, cpc, ccost, cblocking, cresult>>
    /\ UNCHANGED bucketVars
    /\ UNCHANGED nonAsyncVars

\* an observer starts a window at a moment when no caller is waiting
OpenWindow ==
    /\ ~winOpen
    /\ \A d \in Callers : ~InLoop(d)
    /\ winOpen' = TRUE
    /\ winTicks' = 0
    /\ winAdmitted' = 0
    /\ UNCHANGED <<sinceUpdate, lock, cpc, ccost, cblocking, cresult>>
    /\ UNCHANGED bucketVars
    /\ UNCHANGED nonAsyncVars

NextAsync ==
    \/ \E c \in Callers : Enter(c)
    \/ \E c \in Callers : Iterate(c)
    \/ \E c \in Callers : Reset(c)
    \/ Tick
    \/ OpenWindow

(***************************************************************************)
(* RateLimiter.acquire called by concurrent threads.  self._lock is None   *)
(* and is never taken, so the threads interleave between the statements    *)
(* of acquire.                                                             *)
(***************************************************************************)
Threads == 1..NumCallers

\* smallest number of ticks that is at least deficit / rate
WaitTicks(deficit) == (deficit + rate - 1) \div rate

SyncIdle ==
    /\ clock = 0
    /\ last_update = 0
    /\ tpc = <<>>
    /\ tnow = <<>>
    /\ telapsed = <<>>
    /\ tcost = <<>>
    /\ tblocking = <<>>
    /\ twake = <<>>
    /\ admitted = 0

SyncInit ==
    /\ clock = 0
    /\ last_update = 0
    /\ tpc = [t \in Threads |-> "idle"]
    /\ tnow = [t \in Threads |-> 0]
    /\ telapsed = [t \in Threads |-> 0]
    /\ tcost = [t \in Threads |-> 0]
    /\ tblocking = [t \in Threads |-> FALSE]
    /\ twake = [t \in Threads |-> 0]
    /\ admitted = 0

\* a thread calls acquire(tokens, blocking)
Call(t) ==
    /\ tpc[t] = "idle"
    /\ tpc' = [tpc EXCEPT ![t] = "now"]
    /\ \E cost \in 1..MaxCost : tcost' = [tcost EXCEPT ![t] = cost]
    /\ \E b \in BOOLEAN : tblocking' = [tblocking EXCEPT ![t] = b]
    /\ UNCHANGED <<clock, last_update, tnow, telapsed, twake, admitted>>
    /\ UNCHANGED bucketVars
    /\ UNCHANGED nonSyncVars

\* now = time.time()
ReadNow(t) ==
    /\ tpc[t] = "now"
    /\ tnow' = [tnow EXCEPT ![t] = clock]
    /\ tpc' = [tpc EXCEPT ![t] = "elapsed"]
    /\ UNCHANGED <<clock, last_update, telapsed, tcost, tblocking, twake,
                   admitted>>
    /\ UNCHANGED bucketVars
    /\ UNCHANGED nonSyncVars

\* elapsed = now - self.last_update
ReadElapsed(t) ==
    /\ tpc[t] = "elapsed"
    /\ telapsed' = [telapsed EXCEPT ![t] = tnow[t] - last_update]
    /\ tpc' = [tpc EXCEPT ![t] = "refill"]
    /\ UNCHANGED <<clock, last_update, tnow, tcost, tblocking, twake,
                   admitted>>
    /\ UNCHANGED bucketVars
    /\ UNCHANGED nonSyncVars

\* self.tokens = min(self.burst, self.tokens + elapsed * self.rate)
RefillTokens(t) ==
    /\ tpc[t] = "refill"
    /\ tokens' = Refill(tokens, telapsed[t])
    /\ tpc' = [tpc EXCEPT ![t] = "update"]
    /\ UNCHANGED <<rate, burst>>
    /\ UNCHANGED <<clock, last_update, tnow, telapsed, tcost, tblocking,
                   twake, admitted>>
    /\ UNCHANGED nonSyncVars

\* self.last_update = now
WriteLastUpdate(t) ==
    /\ tpc[t] = "update"
    /\ last_update' = tnow[t]
    /\ tpc' = [tpc EXCEPT ![t] = "check"]
    /\ UNCHANGED <<clock, tnow, telapsed, tcost, tblocking, twake, admitted>>
    /\ UNCHANGED bucketVars
    /\ UNCHANGED nonSyncVars

\* if self.tokens >= tokens: ...  /  if not blocking: return False
CheckTokens(t) ==
    /\ tpc[t] = "check"
    /\ tpc' = [tpc EXCEPT ![t] =
                  IF Enough(tokens, tcost[t]) THEN "deduct"
                  ELSE IF ~tblocking[t] THEN "returned_false"
                  ELSE "wait"]
    /\ UNCHANGED <<clock, last_update, tnow, telapsed, tcost, tblocking,
                   twake, admitted>>
    /\ UNCHANGED bucketVars
    /\ UNCHANGED nonSyncVars

\* self.tokens -= tokens; return True
DeductTokens(t) ==
    /\ tpc[t] = "deduct"
    /\ tokens' = Deduct(tokens, tcost[t])
    /\ admitted' = admitted + tcost[t] * TokenScale
    /\ tpc' = [tpc EXCEPT ![t] = "returned_true"]
    /\ UNCHANGED <<rate, burst>>
    /\ UNCHANGED <<clock, last_update, tnow, telapsed, tcost, tblocking,
                   twake>>
    /\ UNCHANGED nonSyncVars

\* deficit = tokens - self.tokens; wait_time = deficit / self.rate;
\* time.sleep(wait_time), which raises ValueError for a negative length
StartSleep(t) ==
    /\ tpc[t] = "wait"
    /\ LET deficit == tcost[t] * TokenScale - tokens
       IN  IF deficit < 0
           THEN /\ tpc' = [tpc EXCEPT ![t] = "raised"]
                /\ UNCHANGED twake
           ELSE /\ tpc' = [tpc EXCEPT ![t] = "sleeping"]
                /\ twake' = [twake EXCEPT ![t] = clock + WaitTicks(deficit)]
    /\ UNCHANGED <<clock, last_update, tnow, telapsed, tcost, tblocking,
                   admitted>>
    /\ UNCHANGED bucketVars
    /\ UNCHANGED nonSyncVars

\* time.sleep returns, the loop goes round
Wake(t) ==
    /\ tpc[t] = "sleeping"
    /\ clock >= twake[t]
    /\ tpc' = [tpc EXCEPT ![t] = "now"]
    /\ twake' = [twake EXCEPT ![t] = 0]
    /\ UNCHANGED <<clock, last_update, tnow, telapsed, tcost, tblocking,
                   admitted>>
    /\ UNCHANGED bucketVars
    /\ UNCHANGED nonSyncVars

\* the wall clock advances by one tick
ClockTick ==
    /\ clock < MaxClock
    /\ clock' = clock + 1
    /\ UNCHANGED <<last_update, tpc, tnow, telapsed, tcost, tblocking, twake,
                   admitted>>
    /\ UNCHANGED bucketVars
    /\ UNCHANGED nonSyncVars

NextSync ==
    \/ \E t \in Threads : Call(t)
    \/ \E t \in Threads : ReadNow(t)
    \/ \E t \in Threads : ReadElapsed(t)
    \/ \E t \in Threads : RefillTokens(t)
    \/ \E t \in Threads : WriteLastUpdate(t)
    \/ \E t \in Threads : CheckTokens(t)
    \/ \E t \in Threads : DeductTokens(t)
    \/ \E t \in Threads : StartSleep(t)
    \/ \E t \in Threads : Wake(t)
    \/ ClockTick

(***************************************************************************)
(* CollectorManager                                                        *)
(***************************************************************************)
RegionUniverse == [i \in 1..NumRegions |-> i]

\* resource types a caller may pass; "plugin" has no registered collector
TypeUniverse == <<"vpc", "subnet", "plugin">>

\* CollectorManager.COLLECTOR_CLASSES (keys; two of the fifteen)
COLLECTOR_CLASSES == {"vpc", "subnet"}

\* what collector.collect_resources() does for one task
ProviderOutcomes ==
    {"ok", "empty", "CollectorException", "Unexpected"}

\* exceptions that are instances of CollectorException (exceptions.py)
IsCollectorException(e) == e \in {"CollectorException", "RetryExhausted"}

\* CollectorResult(resource_type, region) and its fields after collect()
CollectorResult(rt, region, count, success, error) ==
    [resource_type |-> rt, region |-> region, count |-> count,
     success |-> success, error |-> error]

\* placeholder for "no CollectorResult"
NoResult == CollectorResult(None, 0, 0, FALSE, None)

\* BaseCollector.collect: the outcome of one collect() call, given what
\* collect_resources() did.  kind "return" carries the CollectorResult,
\* kind "raise" carries the exception that leaves collect().
Collect(rt, region, provider) ==
    CASE provider = "ok" ->
           [kind |-> "return", exc |-> None,
            result |-> CollectorResult(rt, region, 1, TRUE, None)]
      [] provider = "empty" ->
           [kind |-> "return", exc |-> None,
            result |-> CollectorResult(rt, region, 0, TRUE, None)]
      [] IsCollectorException(provider) ->
           \* except CollectorException: result.success = False; ...; raise
           [kind |-> "raise", exc |-> provider, result |-> NoResult]
      [] OTHER ->
           \* except Exception: ...; raise CollectorException(...)
           [kind |-> "raise", exc |-> "CollectorException",
            result |-> NoResult]

\* values a task hands to gather: a CollectorResult, None, or (with
\* return_exceptions=True) the exception object the task raised
ResultValue(r) == [kind |-> "result", exc |-> None, result |-> r]
NoneValue == [kind |-> "none", exc |-> None, result |-> NoResult]
ExceptionValue(e) == [kind |-> "exception", exc |-> e, result |-> NoResult]

\* _collect_resource_type without its "except Exception": the exception
\* leaves the task and gather hands it over as a value
CollectResourceType_NoCatch(rt, region, provider) ==
    IF rt \notin COLLECTOR_CLASSES THEN NoneValue
    ELSE LET c == Collect(rt, region, provider)
         IN  IF c.kind = "return" THEN ResultValue(c.result)
             ELSE ExceptionValue(c.exc)

\* CollectorManager._collect_resource_type: the value the task coroutine
\* yields to gather
CollectResourceType(rt, region, provider) ==
    IF rt \notin COLLECTOR_CLASSES THEN NoneValue
    ELSE LET c == Collect(rt, region, provider)
         IN  IF c.kind = "return" THEN ResultValue(c.result)
             ELSE NoneValue     \* except Exception as e: ...; return None

\* the task list collect_all builds: one (region, resource_type) pair per
\* region and registered type, in loop order
RECURSIVE TasksFrom(_, _, _, _)
TasksFrom(rs, ts, i, j) ==
    IF i > Len(rs) THEN <<>>
    ELSE IF j > Len(ts) THEN TasksFrom(rs, ts, i + 1, 1)
    ELSE (IF ts[j] \in COLLECTOR_CLASSES
             THEN <<[region |-> rs[i], resource_type |-> ts[j]]>>
             ELSE <<>>)
         \o TasksFrom(rs, ts, i, j + 1)

Tasks == TasksFrom(regions, resource_types, 1, 1)

TaskIds == 1..Len(Tasks)

\* the grouping loop of collect_all over the gathered results; an entry
\* that is an exception object is truthy and has no .region, so the loop
\* raises AttributeError
GroupRaises(results) ==
    \E i \in 1..Len(results) : results[i].kind = "exception"

\* "region = result.region": the key a result is filed under
GroupKey_First(r) == regions[1]

GroupKey(r) == r.region

RECURSIVE GroupByRegion(_, _, _)
GroupByRegion(results, i, acc) ==
    IF i > Len(results) THEN acc
    ELSE LET v == results[i]
         IN  IF v.kind = "none" THEN GroupByRegion(results, i + 1, acc)
             ELSE LET r == v.result
                      region == GroupKey(r)
                      cur == IF region \in DOMAIN acc
                                THEN acc[region] ELSE <<>>
                      new == [k \in (DOMAIN acc) \cup {region} |->
                                IF k = region THEN Append(cur, r)
                                ELSE acc[k]]
                  IN  GroupByRegion(results, i + 1, new)

EmptyMap == [k \in {} |-> <<>>]

NoOut == [provider |-> None,
          collect |-> [kind |-> None, exc |-> None, result |-> NoResult],
          value |-> NoneValue]

CollectIdle ==
    /\ regions = <<>>
    /\ resource_types = <<>>
    /\ max_concurrent = 0
    /\ semaphore = 0
    /\ taskPc = <<>>
    /\ taskOut = <<>>
    /\ mgrPc = "idle"
    /\ results_by_region = EmptyMap

\* collect_all up to the creation of the semaphore and the bounded tasks
CollectInit ==
    /\ \E R \in SUBSET Range(RegionUniverse) :
           regions = SubSeq2(RegionUniverse, 1, R)
    /\ \E T \in SUBSET Range(TypeUniverse) :
           resource_types = SubSeq2(TypeUniverse, 1, T)
    /\ max_concurrent \in 1..MaxConcurrentBound
    /\ semaphore = max_concurrent
    /\ taskPc = [t \in 1..Len(TasksFrom(regions, resource_types, 1, 1)) |->
                    "pending"]
    /\ taskOut = [t \in 1..Len(TasksFrom(regions, resource_types, 1, 1)) |->
                    NoOut]
    /\ mgrPc = "gathering"
    /\ results_by_region = EmptyMap

\* a bounded_task that starts its task without waiting for a permit
SemaphoreAcquire_NoWait(t) == TRUE

\* bounded_task: "async with semaphore" can be entered
SemaphoreAcquire(t) == semaphore > 0

StartTask(t) ==
    /\ mgrPc = "gathering"
    /\ taskPc[t] = "pending"
    /\ SemaphoreAcquire(t)
    /\ semaphore' = semaphore - 1
    /\ taskPc' = [taskPc EXCEPT ![t] = "running"]
    /\ UNCHANGED <<regions, resource_types, max_concurrent, taskOut, mgrPc,
                   results_by_region>>
    /\ UNCHANGED nonCollectVars

\* the free permits after bounded_task leaves "async with semaphore" with
\* the given value: __aexit__ releases on return and on exception alike
SemaphoreAfterExit_KeptOnFailure(s, value) ==
    IF value.kind = "result" THEN s + 1 ELSE s

SemaphoreAfterExit(s, value) == s + 1

\* the task coroutine finishes (collect() returned or raised) and
\* bounded_task leaves the "async with", releasing the permit
FinishTask(t) ==
    /\ mgrPc = "gathering"
    /\ taskPc[t] = "running"
    /\ \E provider \in ProviderOutcomes :
         LET rt == Tasks[t].resource_type
             rg == Tasks[t].region
         IN  taskOut' = [taskOut EXCEPT ![t] =
                 [provider |-> provider,
                  collect  |-> Collect(rt, rg, provider),
                  value    |-> CollectResourceType(rt, rg, provider)]]
    /\ semaphore' = SemaphoreAfterExit(semaphore, taskOut'[t].value)
    /\ taskPc' = [taskPc EXCEPT ![t] = "done"]
    /\ UNCHANGED <<regions, resource_types, max_concurrent, mgrPc,
                   results_by_region>>
    /\ UNCHANGED nonCollectVars

\* gather returned: the grouping loop and the return of collect_all
Aggregate ==
    /\ mgrPc = "gathering"
    /\ \A t \in TaskIds : taskPc[t] = "done"
    /\ LET results == [t \in TaskIds |-> taskOut[t].value]
       IN  IF GroupRaises(results)
           THEN /\ mgrPc' = "raised"
                /\ UNCHANGED results_by_region
           ELSE /\ mgrPc' = "returned"
                /\ results_by_region' = GroupByRegion(results, 1, EmptyMap)
    /\ UNCHANGED <<regions, resource_types, max_concurrent, semaphore,
                   taskPc, taskOut>>
    /\ UNCHANGED nonCollectVars

NextCollect ==
    \/ \E t \in TaskIds : StartTask(t)
    \/ \E t \in TaskIds : FinishTask(t)
    \/ Aggregate

(***************************************************************************)
(* Topology graph: GraphBuilder (graph/builder.py) and GraphAnalyzer       *)
(* (graph/analyzer.py) over a networkx DiGraph.  gInput is the sequence of *)
(* Collection Results in the order build_graph iterates them (regions in   *)
(* dict order, results in list order).                                     *)
(***************************************************************************)
\* the resource ids records may carry and refer to
Ids == {"a", "b"}

\* a foreign key: an id or nothing
Refs == Ids \cup {None}

\* a list-valued foreign key (attached_vpc_ids, security_groups)
RefLists == {<<>>} \cup {<<q>> : q \in Ids}

\* ResourceType values
VPC == "vpc"
SUBNET == "subnet"
EC2_INSTANCE == "ec2_instance"
INTERNET_GATEWAY == "internet_gateway"
SECURITY_GROUP == "security_group"
NAT_GATEWAY == "nat_gateway"

\* the resource types with a registered collector; nat_gateway stands for
\* the ten registered types build_graph has no branch for
RegisteredTypes ==
    {VPC, SUBNET, EC2_INSTANCE, INTERNET_GATEWAY, SECURITY_GROUP, NAT_GATEWAY}

\* RelationshipType values
CONTAINS == "contains"
HOSTS == "hosts"
ATTACHED_TO == "attached_to"
PROTECTS == "protects"

\* a normalized inbound rule of a security group (_normalize_rules);
\* ip_ranges and ipv6_ranges list the "cidr" of each entry
Rule(ip_ranges, ipv6_ranges) ==
    [ip_protocol |-> "tcp", from_port |-> 22, to_port |-> 22,
     ip_ranges |-> ip_ranges, ipv6_ranges |-> ipv6_ranges]

\* the ingress_rules lists a security-group record may carry
RuleLists ==
    {<<>>, <<Rule(<<"0.0.0.0/0">>, <<>>)>>, <<Rule(<<"10.0.0.0/8">>, <<>>)>>,
     <<Rule(<<>>, <<"::/0">>)>>}

\* a normalized resource record as the collectors emit it (the fields the
\* builder and the analyzer read); security_groups lists the "id" of each
\* entry
Record(id, vpc_id, subnet_id, attached_vpc_ids, security_groups, rules) ==
    [id |-> id, vpc_id |-> vpc_id, subnet_id |-> subnet_id,
     attached_vpc_ids |-> attached_vpc_ids,
     security_groups |-> security_groups,
     ingress_rules |-> rules]

\* the records a collector of type rt may emit
RecordsOf(rt) ==
    IF rt = SUBNET
    THEN {Record(i, v, None, <<>>, <<>>, <<>>) : i \in Ids, v \in Refs}
    ELSE IF rt = EC2_INSTANCE
    THEN {Record(i, None, s, <<>>, q, <<>>) :
             i \in Ids, s \in Refs, q \in RefLists}
    ELSE IF rt = INTERNET_GATEWAY
    THEN {Record(i, None, None, a, <<>>, <<>>) : i \in Ids, a \in RefLists}
    ELSE IF rt = SECURITY_GROUP
    THEN {Record(i, None, None, <<>>, <<>>, rules) :
             i \in Ids, rules \in RuleLists}
    ELSE {Record(i, None, None, <<>>, <<>>, <<>>) : i \in Ids}

\* a Collection Result as build_graph reads it
Result(rt, success, resources) ==
    [resource_type |-> rt, success |-> success, resources |-> resources]

\* nx.DiGraph(): nodes map an id to its attribute dict, edges map an ordered
\* pair to the relationship of the one edge the pair can have
NewDiGraph == [nodes |-> [n \in {} |-> <<>>], edges |-> [e \in {} |-> None]]

\* dict.get(key) with default None
Get(d, key) == IF key \in DOMAIN d THEN d[key] ELSE None

\* dict.update(attrs)
Update(d, attrs) ==
    [k \in DOMAIN d \cup DOMAIN attrs |->
        IF k \in DOMAIN attrs THEN attrs[k] ELSE d[k]]

\* DiGraph.add_node(n, **attrs): a new node gets attrs, an existing node's
\* attribute dict is updated with attrs
add_node(g, n, attrs) ==
    [g EXCEPT !.nodes =
        [m \in DOMAIN g.nodes \cup {n} |->
            IF m # n THEN g.nodes[m]
            ELSE IF n \in DOMAIN g.nodes THEN Update(g.nodes[n], attrs)
            ELSE attrs]]

\* DiGraph.add_edge(u, v, relationship=rel, label=...): endpoints that are
\* not nodes are created without attributes; an existing edge (u, v) has its
\* attributes replaced
add_edge(g, u, v, rel) ==
    [nodes |-> [m \in DOMAIN g.nodes \cup {u, v} |->
                   IF m \in DOMAIN g.nodes THEN g.nodes[m]
                   ELSE [k \in {} |-> None]],
     edges |-> [e \in DOMAIN g.edges \cup {<<u, v>>} |->
                   IF e = <<u, v>> THEN rel ELSE g.edges[e]]]

\* DiGraph.has_node
has_node_Any(g, n) == TRUE

has_node(g, n) == n \in DOMAIN g.nodes

\* the keyword arguments of add_node in _add_<type>_nodes, as far as the
\* builder reads them back
NodeAttrs(rt, r) ==
    IF rt = SUBNET
    THEN [resource_type |-> rt, vpc_id |-> r.vpc_id, data |-> r]
    ELSE IF rt = EC2_INSTANCE
    THEN [resource_type |-> rt, vpc_id |-> r.vpc_id,
          subnet_id |-> r.subnet_id, data |-> r]
    ELSE IF rt = INTERNET_GATEWAY
    THEN [resource_type |-> rt, attached_vpcs |-> r.attached_vpc_ids,
          data |-> r]
    ELSE IF rt = SECURITY_GROUP
    THEN [resource_type |-> rt, vpc_id |-> r.vpc_id, data |-> r]
    ELSE [resource_type |-> rt, data |-> r]

RECURSIVE add_nodes(_, _, _, _)
\* _add_vpc_nodes .. _add_security_group_nodes: one add_node per record
add_nodes(g, rt, resources, i) ==
    IF i > Len(resources) THEN g
    ELSE add_nodes(add_node(g, resources[i].id, NodeAttrs(rt, resources[i])),
                   rt, resources, i + 1)

\* the resource types build_graph has an _add_*_nodes branch for
HandledTypes == {VPC, SUBNET, EC2_INSTANCE, INTERNET_GATEWAY, SECURITY_GROUP}

\* "if not result.success: continue"
Skipped_Never(result) == FALSE

Skipped(result) == ~result.success

RECURSIVE NodePass(_, _, _)
\* the node pass of build_graph over the results from index i on
NodePass(g, results, i) ==
    IF i > Len(results) THEN g
    ELSE LET result == results[i]
         IN  IF Skipped(result) \/ result.resource_type \notin HandledTypes
             THEN NodePass(g, results, i + 1)
             ELSE NodePass(add_nodes(g, result.resource_type,
                                     result.resources, 1),
                           results, i + 1)

\* the nodes of a resource type, as the _connect_* loops select them
NodesOfType(g, rt) ==
    {n \in DOMAIN g.nodes : Get(g.nodes[n], "resource_type") = rt}

RECURSIVE add_edges(_, _, _)
\* add_edge for every <<u, v>> of pairs.  Within one _connect_* method the
\* order of the calls does not matter: they all carry the same relationship.
add_edges(g, pairs, rel) ==
    IF pairs = {} THEN g
    ELSE LET p == CHOOSE q \in pairs : TRUE
         IN  add_edges(add_edge(g, p[1], p[2], rel), pairs \ {p}, rel)

\* _connect_vpcs_to_subnets
connect_vpcs_to_subnets(g) ==
    add_edges(g,
        {<<Get(g.nodes[n], "vpc_id"), n>> :
            n \in {m \in NodesOfType(g, SUBNET) :
                     /\ Get(g.nodes[m], "vpc_id") # None
                     /\ has_node(g, Get(g.nodes[m], "vpc_id"))}},
        CONTAINS)

\* _connect_subnets_to_instances
connect_subnets_to_instances(g) ==
    add_edges(g,
        {<<Get(g.nodes[n], "subnet_id"), n>> :
            n \in {m \in NodesOfType(g, EC2_INSTANCE) :
                     /\ Get(g.nodes[m], "subnet_id") # None
                     /\ has_node(g, Get(g.nodes[m], "subnet_id"))}},
        HOSTS)

\* _connect_vpcs_to_igws
connect_vpcs_to_igws(g) ==
    add_edges(g,
        {p \in Ids \X NodesOfType(g, INTERNET_GATEWAY) :
            /\ p[1] \in Range(g.nodes[p[2]]["attached_vpcs"])
            /\ has_node(g, p[1])},
        ATTACHED_TO)

\* _connect_security_groups
connect_security_groups(g) ==
    add_edges(g,
        {p \in Ids \X NodesOfType(g, EC2_INSTANCE) :
            /\ p[1] \in Range(g.nodes[p[2]]["data"].security_groups)
            /\ has_node(g, p[1])},
        PROTECTS)

\* _build_relationships
build_relationships(g) ==
    connect_security_groups(
        connect_vpcs_to_igws(
            connect_subnets_to_instances(
                connect_vpcs_to_subnets(g))))

\* the resources list of a result after build_graph has read it
ResourcesAfterBuild_Drained(resources) == <<>>

ResourcesAfterBuild(resources) == resources

\* the (source, target, relationship) triples of a graph
EdgeTriples(g) == {<<e[1], e[2], g.edges[e]>> : e \in DOMAIN g.edges}

RECURSIVE ReachFrom(_, _)
\* the nodes reachable from S along the pairs of Adj
ReachFrom(S, Adj) ==
    LET T == S \cup {p[2] : p \in {q \in Adj : q[1] \in S}}
    IN  IF T = S THEN S ELSE ReachFrom(T, Adj)

\* nx.weakly_connected_components
weakly_connected_components(g) ==
    LET E == DOMAIN g.edges
        U == E \cup {<<e[2], e[1]>> : e \in E}
    IN  {ReachFrom({n}, U) : n \in DOMAIN g.nodes}

\* nx.density: 0 when there is no edge or at most one node, else
\* m / (n * (n - 1)), kept as <<numerator, denominator>>
density(g) ==
    LET n == Cardinality(DOMAIN g.nodes)
        m == Cardinality(DOMAIN g.edges)
    IN  IF m = 0 \/ n <= 1 THEN <<0, 1>> ELSE <<m, n * (n - 1)>>

\* nx.is_weakly_connected and nx.is_strongly_connected raise
\* NetworkXPointlessConcept on a graph without nodes
RaisesPointlessConcept(g) == DOMAIN g.nodes = {}

\* nx.is_weakly_connected on a graph with nodes
is_weakly_connected(g) == Cardinality(weakly_connected_components(g)) = 1

\* nx.is_strongly_connected on a graph with nodes
is_strongly_connected(g) ==
    \A n \in DOMAIN g.nodes : ReachFrom({n}, DOMAIN g.edges) = DOMAIN g.nodes

Bool(b) == IF b THEN "True" ELSE "False"

MaxCard(S) == IF S = {} THEN 0
              ELSE CHOOSE k \in {Cardinality(c) : c \in S} :
                       \A c \in S : Cardinality(c) <= k

MinCard(S) == IF S = {} THEN 0
              ELSE CHOOSE k \in {Cardinality(c) : c \in S} :
                       \A c \in S : Cardinality(c) >= k

\* no call made yet
NoReport ==
    [call |-> None, status |-> None, total_nodes |-> 0, total_edges |-> 0,
     density |-> <<0, 1>>, is_connected |-> None, component_count |-> 0,
     largest_component_size |-> 0, smallest_component_size |-> 0,
     is_strongly_connected |-> None, isolated |-> <<>>, issues |-> <<>>,
     issues_found |-> 0, total_security_groups |-> 0]

\* the call left with NetworkXPointlessConcept
Raised(call) == [NoReport EXCEPT !.call = call, !.status = "raised"]

\* GraphAnalyzer.get_basic_metrics
get_basic_metrics(g) ==
    IF RaisesPointlessConcept(g) THEN Raised("get_basic_metrics")
    ELSE [NoReport EXCEPT
            !.call = "get_basic_metrics",
            !.status = "returned",
            !.total_nodes = Cardinality(DOMAIN g.nodes),
            !.total_edges = Cardinality(DOMAIN g.edges),
            !.density = density(g),
            !.is_connected = Bool(is_weakly_connected(g))]

\* GraphAnalyzer.analyze_connectivity
analyze_connectivity(g) ==
    IF RaisesPointlessConcept(g) THEN Raised("analyze_connectivity")
    ELSE LET components == weakly_connected_components(g)
         IN  [NoReport EXCEPT
                !.call = "analyze_connectivity",
                !.status = "returned",
                !.component_count = Cardinality(components),
                !.largest_component_size = MaxCard(components),
                !.smallest_component_size = MinCard(components),
                !.is_strongly_connected = Bool(is_strongly_connected(g))]

\* DiGraph.in_degree and DiGraph.out_degree (a self-loop counts in both)
in_degree(g, n) == Cardinality({e \in DOMAIN g.edges : e[2] = n})
out_degree(g, n) == Cardinality({e \in DOMAIN g.edges : e[1] = n})

\* "if in_degree == 0 and out_degree == 0"
IsIsolated_Either(g, n) == in_degree(g, n) = 0 \/ out_degree(g, n) = 0

IsIsolated(g, n) == in_degree(g, n) = 0 /\ out_degree(g, n) = 0

RECURSIVE NodeList(_)
\* the nodes of S in the order graph.nodes(data=True) yields them (one
\* fixed order; no result below depends on which)
NodeList(S) ==
    IF S = {} THEN <<>>
    ELSE LET n == CHOOSE m \in S : TRUE
         IN  <<n>> \o NodeList(S \ {n})

\* GraphAnalyzer.find_isolated_resources (the "id" of each entry)
find_isolated_resources(g) ==
    [NoReport EXCEPT
        !.call = "find_isolated_resources",
        !.status = "returned",
        !.isolated = NodeList({n \in DOMAIN g.nodes : IsIsolated(g, n)})]

\* 'if cidr == "0.0.0.0/0"'
IsFlagged(cidr) == cidr = "0.0.0.0/0"

\* the entry analyze_security_posture appends for a flagged range
Issue(n, rule) ==
    [security_group_id |-> n, protocol |-> rule.ip_protocol,
     from_port |-> rule.from_port, to_port |-> rule.to_port]

RECURSIVE IssuesOfRanges(_, _, _, _)
\* "for ip_range in rule.get('ip_ranges', [])"
IssuesOfRanges(n, rule, ranges, k) ==
    IF k > Len(ranges) THEN <<>>
    ELSE (IF IsFlagged(ranges[k]) THEN <<Issue(n, rule)>> ELSE <<>>)
         \o IssuesOfRanges(n, rule, ranges, k + 1)

RECURSIVE IssuesOfRules(_, _, _)
\* "for rule in ingress_rules"
IssuesOfRules(n, rules, j) ==
    IF j > Len(rules) THEN <<>>
    ELSE IssuesOfRanges(n, rules[j], rules[j].ip_ranges, 1)
         \o IssuesOfRules(n, rules, j + 1)

RECURSIVE IssuesOfNodes(_, _, _)
\* the loop of analyze_security_posture over the security-group nodes
IssuesOfNodes(g, nodes, i) ==
    IF i > Len(nodes) THEN <<>>
    ELSE IssuesOfRules(nodes[i], g.nodes[nodes[i]]["data"].ingress_rules, 1)
         \o IssuesOfNodes(g, nodes, i + 1)

\* GraphAnalyzer.analyze_security_posture
analyze_security_posture(g) ==
    LET security_issues ==
            IssuesOfNodes(g, NodeList(NodesOfType(g, SECURITY_GROUP)), 1)
    IN  [NoReport EXCEPT
            !.call = "analyze_security_posture",
            !.status = "returned",
            !.total_security_groups =
                Cardinality(NodesOfType(g, SECURITY_GROUP)),
            !.issues_found = Len(security_issues),
            !.issues = security_issues]

\* the graph object after a GraphAnalyzer method or export_to_dict ran on
\* it: they only read it
GraphAfterCall_Annotated(g) ==
    [g EXCEPT !.nodes = [n \in DOMAIN g.nodes |->
                            Update(g.nodes[n], [id |-> n])]]

GraphAfterCall(g) == g

\* GraphAnalyzer.analyze: basic_metrics, connectivity, isolated_resources
\* and security_analysis (vpc_analysis and subnet_analysis are not kept)
analyze(g) ==
    LET b == get_basic_metrics(g)
        c == analyze_connectivity(g)
        i == find_isolated_resources(g)
        x == analyze_security_posture(g)
    IN  IF b.status = "raised" \/ c.status = "raised" THEN Raised("analyze")
        ELSE [b EXCEPT
                !.call = "analyze",
                !.component_count = c.component_count,
                !.largest_component_size = c.largest_component_size,
                !.smallest_component_size = c.smallest_component_size,
                !.is_strongly_connected = c.is_strongly_connected,
                !.isolated = i.isolated,
                !.issues = x.issues,
                !.issues_found = x.issues_found,
                !.total_security_groups = x.total_security_groups]

TotalRecords(results) ==
    LET RECURSIVE Sum(_)
        Sum(i) == IF i > Len(results) THEN 0
                  ELSE Len(results[i].resources) + Sum(i + 1)
    IN  Sum(1)

GraphIdle ==
    /\ gInput = <<>>
    /\ gPc = "idle"
    /\ graph = NewDiGraph
    /\ firstGraph = NewDiGraph
    /\ nodePassNodes = {}
    /\ report = NoReport

\* a GraphBuilder and the results map about to be filled by collection
GraphInit ==
    /\ gInput = <<>>
    /\ gPc = "input"
    /\ graph = NewDiGraph
    /\ firstGraph = NewDiGraph
    /\ nodePassNodes = {}
    /\ report = NoReport

\* collection appends a result of type rt with its first record
AddResult ==
    /\ gPc = "input"
    /\ TotalRecords(gInput) < MaxRecords
    /\ \E rt \in RegisteredTypes, success \in BOOLEAN :
         \E r \in RecordsOf(rt) :
            gInput' = Append(gInput, Result(rt, success, <<r>>))
    /\ UNCHANGED <<gPc, graph, firstGraph, nodePassNodes, report>>
    /\ UNCHANGED nonGraphVars

\* collection appends one more record to the last result
AddRecord ==
    /\ gPc = "input"
    /\ gInput # <<>>
    /\ TotalRecords(gInput) < MaxRecords
    /\ \E r \in RecordsOf(gInput[Len(gInput)].resource_type) :
            gInput' = [gInput EXCEPT ![Len(gInput)].resources = Append(@, r)]
    /\ UNCHANGED <<gPc, graph, firstGraph, nodePassNodes, report>>
    /\ UNCHANGED nonGraphVars

\* GraphBuilder.build_graph(results_by_region), the first and the second
\* call on the same results
build_graph ==
    /\ gPc \in {"input", "built"}
    /\ LET afterNodes == NodePass(NewDiGraph, gInput, 1)
           built == build_relationships(afterNodes)
       IN  /\ nodePassNodes' = DOMAIN afterNodes.nodes
           /\ graph' = built
           /\ firstGraph' = IF gPc = "input" THEN built ELSE firstGraph
    /\ gInput' = [i \in 1..Len(gInput) |->
                    [gInput[i] EXCEPT
                        !.resources = ResourcesAfterBuild(@)]]
    /\ gPc' = IF gPc = "input" THEN "built" ELSE "rebuilt"
    /\ UNCHANGED report
    /\ UNCHANGED nonGraphVars

\* a GraphAnalyzer method called on the NetworkGraph build_graph returned;
\* r is what it returns
Called(r) ==
    /\ gPc = "built"
    /\ report' = r
    /\ graph' = GraphAfterCall(graph)
    /\ gPc' = "analyzed"
    /\ UNCHANGED <<gInput, firstGraph, nodePassNodes>>
    /\ UNCHANGED nonGraphVars

\* GraphAnalyzer(network_graph).get_basic_metrics()
GetBasicMetrics == Called(get_basic_metrics(graph))

\* GraphAnalyzer(network_graph).analyze_connectivity()
AnalyzeConnectivity == Called(analyze_connectivity(graph))

\* GraphAnalyzer(network_graph).analyze()
Analyze == Called(analyze(graph))

\* GraphAnalyzer(network_graph).find_isolated_resources()
FindIsolatedResources == Called(find_isolated_resources(graph))

\* GraphAnalyzer(network_graph).analyze_security_posture()
AnalyzeSecurityPosture == Called(analyze_security_posture(graph))

\* The methods below return values that no later step reads; only what
\* they do to the graph is kept, and report stays as it is.

\* GraphAnalyzer(network_graph).analyze_vpcs()
AnalyzeVpcs == Called(report)

\* GraphAnalyzer(network_graph).analyze_subnets()
AnalyzeSubnets == Called(report)

\* GraphAnalyzer(network_graph).find_path(source, target)
FindPath == Called(report)

\* GraphAnalyzer(network_graph).get_resource_dependencies(resource_id)
GetResourceDependencies == Called(report)

\* GraphAnalyzer(network_graph).get_centrality_metrics()
GetCentralityMetrics == Called(report)

\* GraphBuilder.export_to_dict(network_graph), before or after an analysis
ExportToDict ==
    /\ gPc \in {"built", "analyzed"}
    /\ graph' = GraphAfterCall(graph)
    /\ gPc' = "analyzed"
    /\ UNCHANGED <<gInput, firstGraph, nodePassNodes, report>>
    /\ UNCHANGED nonGraphVars

NextGraph ==
    \/ AddResult
    \/ AddRecord
    \/ build_graph
    \/ GetBasicMetrics
    \/ AnalyzeConnectivity
    \/ Analyze
    \/ FindIsolatedResources
    \/ AnalyzeSecurityPosture
    \/ AnalyzeVpcs
    \/ AnalyzeSubnets
    \/ FindPath
    \/ GetResourceDependencies
    \/ GetCentralityMetrics
    \/ ExportToDict

(***************************************************************************)
(* CollectorManager.get_summary                                            *)
(***************************************************************************)
\* the resources lists a Collection Result is constructed with
ResourceLists == {<<>>, <<"r">>}

\* the count arguments a Collection Result is constructed with; 0 is the
\* dataclass default
CountArgs == {0, 2}

\* CollectorResult.__init__ followed by __post_init__
CollectorResult_init(rt, region, resources, count, success) ==
    [resource_type |-> rt, region |-> region, resources |-> resources,
     count |-> IF count = 0 /\ resources # <<>> THEN Len(resources)
               ELSE count,
     success |-> success]

\* the results of a map, region by region, as one list
RECURSIVE Flatten(_)
Flatten(m) ==
    IF DOMAIN m = {} THEN <<>>
    ELSE LET k == CHOOSE x \in DOMAIN m : TRUE
         IN  m[k] \o Flatten([j \in (DOMAIN m) \ {k} |-> m[j]])

\* the running sum "+= result.count" over a list of results
RECURSIVE SumCount(_, _)
SumCount(rs, i) ==
    IF i > Len(rs) THEN 0 ELSE rs[i].count + SumCount(rs, i + 1)

\* get_summary(results)
get_summary(results) ==
    LET all == Flatten(results)
        types == {all[i].resource_type : i \in 1..Len(all)}
    IN  [total_resources |-> SumCount(all, 1),
         total_regions |-> Cardinality(DOMAIN results),
         resources_by_type |->
             [rt \in types |->
                 SumCount(SelectSeq(all, LAMBDA r : r.resource_type = rt),
                          1)],
         resources_by_region |->
             [region \in DOMAIN results |-> SumCount(results[region], 1)]]

NoSummary == [total_resources |-> 0, total_regions |-> 0,
              resources_by_type |-> EmptyMap,
              resources_by_region |-> EmptyMap]

SummaryIdle ==
    /\ sResults = EmptyMap
    /\ sPc = "idle"
    /\ summary = NoSummary

SummaryInit ==
    /\ sResults = EmptyMap
    /\ sPc = "building"
    /\ summary = NoSummary

\* the caller files one more Collection Result under its region
PutResult ==
    /\ sPc = "building"
    /\ Len(Flatten(sResults)) < MaxSummaryResults
    /\ \E region \in Range(RegionUniverse), rt \in COLLECTOR_CLASSES,
          resources \in ResourceLists, count \in CountArgs,
          success \in BOOLEAN :
          LET r == CollectorResult_init(rt, region, resources, count,
                                        success)
              cur == IF region \in DOMAIN sResults
                        THEN sResults[region] ELSE <<>>
          IN  sResults' = [k \in (DOMAIN sResults) \cup {region} |->
                              IF k = region THEN Append(cur, r)
                              ELSE sResults[k]]
    /\ UNCHANGED <<sPc, summary>>
    /\ UNCHANGED nonSummaryVars

GetSummary ==
    /\ sPc = "building"
    /\ summary' = get_summary(sResults)
    /\ sPc' = "summarized"
    /\ UNCHANGED sResults
    /\ UNCHANGED nonSummaryVars

NextSummary ==
    \/ PutResult
    \/ GetSummary

(***************************************************************************)
(* CollectorManager.collect_region                                         *)
(***************************************************************************)
\* "tasks = [... for resource_type in resource_types if resource_type in
\* self.COLLECTOR_CLASSES]": the registered types, in list order
RegionTasks == SelectSeq(rTypes, LAMBDA rt : rt \in COLLECTOR_CLASSES)

RegionTaskIds == 1..Len(RegionTasks)

\* the tasks that have started and not finished
RegionInFlight == {t \in RegionTaskIds : rTaskPc[t] = "running"}

\* "[r for r in results if isinstance(r, CollectorResult)]"
RECURSIVE FilterResults(_, _)
FilterResults(results, i) ==
    IF i > Len(results) THEN <<>>
    ELSE (IF results[i].kind = "result" THEN <<results[i].result>>
          ELSE <<>>)
         \o FilterResults(results, i + 1)

RegionIdle ==
    /\ rRegion = 0
    /\ rTypes = <<>>
    /\ rMaxConcurrent = 0
    /\ rTaskPc = <<>>
    /\ rTaskOut = <<>>
    /\ rPc = "idle"
    /\ rReturn = <<>>

\* collect_region up to the call of asyncio.gather
RegionInit ==
    /\ rRegion \in Range(RegionUniverse)
    /\ \E T \in SUBSET Range(TypeUniverse) :
           rTypes = SubSeq2(TypeUniverse, 1, T)
    /\ rMaxConcurrent \in 1..MaxConcurrentBound
    /\ rTaskPc = [t \in 1..Len(SelectSeq(rTypes,
                                LAMBDA rt : rt \in COLLECTOR_CLASSES)) |->
                     "pending"]
    /\ rTaskOut = [t \in 1..Len(SelectSeq(rTypes,
                                 LAMBDA rt : rt \in COLLECTOR_CLASSES)) |->
                      NoneValue]
    /\ rPc = "gathering"
    /\ rReturn = <<>>

\* gather runs the coroutine of task t: nothing stands between the task and
\* its first step
StartRegionTask(t) ==
    /\ rPc = "gathering"
    /\ rTaskPc[t] = "pending"
    /\ rTaskPc' = [rTaskPc EXCEPT ![t] = "running"]
    /\ UNCHANGED <<rRegion, rTypes, rMaxConcurrent, rTaskOut, rPc, rReturn>>
    /\ UNCHANGED nonRegionVars

\* the task coroutine finishes: collect() returned or raised
FinishRegionTask(t) ==
    /\ rPc = "gathering"
    /\ rTaskPc[t] = "running"
    /\ \E provider \in ProviderOutcomes :
         rTaskOut' = [rTaskOut EXCEPT ![t] =
             CollectResourceType(RegionTasks[t], rRegion, provider)]
    /\ rTaskPc' = [rTaskPc EXCEPT ![t] = "done"]
    /\ UNCHANGED <<rRegion, rTypes, rMaxConcurrent, rPc, rReturn>>
    /\ UNCHANGED nonRegionVars

\* gather returned: the filter and the return of collect_region
ReturnRegion ==
    /\ rPc = "gathering"
    /\ \A t \in RegionTaskIds : rTaskPc[t] = "done"
    /\ rReturn' = FilterResults(rTaskOut, 1)
    /\ rPc' = "returned"
    /\ UNCHANGED <<rRegion, rTypes, rMaxConcurrent, rTaskPc, rTaskOut>>
    /\ UNCHANGED nonRegionVars

NextRegion ==
    \/ \E t \in RegionTaskIds : StartRegionTask(t)
    \/ \E t \in RegionTaskIds : FinishRegionTask(t)
    \/ ReturnRegion

(***************************************************************************)
(* Specifications                                                          *)
(***************************************************************************)
InitCollect ==
    CollectInit /\ RetryIdle /\ BucketIdle /\ AsyncIdle /\ SyncIdle /\ GraphIdle
    /\ SummaryIdle /\ RegionIdle

SpecCollect == InitCollect /\ [][NextCollect]_vars

\* the event loop keeps running a ready coroutine as long as there is one:
\* a bounded_task that can take a permit, a running collector task that
\* finishes, or gather's caller once every task is done
FairSpecCollect ==
    /\ SpecCollect
    /\ WF_vars(NextCollect)

InitRetry ==
    RetryInit /\ CollectIdle /\ BucketIdle /\ AsyncIdle /\ SyncIdle /\ GraphIdle
    /\ SummaryIdle /\ RegionIdle

SpecRetry == InitRetry /\ [][NextRetry]_vars

InitAsync ==
    BucketInit /\ AsyncInit /\ CollectIdle /\ RetryIdle /\ SyncIdle /\ GraphIdle
    /\ SummaryIdle /\ RegionIdle

SpecAsync == InitAsync /\ [][NextAsync]_vars

InitSync ==
    BucketInit /\ SyncInit /\ CollectIdle /\ RetryIdle /\ AsyncIdle /\ GraphIdle
    /\ SummaryIdle /\ RegionIdle

InitGraph ==
    GraphInit /\ CollectIdle /\ RetryIdle /\ BucketIdle /\ AsyncIdle /\ SyncIdle
    /\ SummaryIdle /\ RegionIdle

SpecGraph == InitGraph /\ [][NextGraph]_vars

InitSummary ==
    SummaryInit /\ CollectIdle /\ RetryIdle /\ BucketIdle /\ AsyncIdle
    /\ SyncIdle /\ GraphIdle /\ RegionIdle

SpecSummary == InitSummary /\ [][NextSummary]_vars

InitRegion ==
    RegionInit /\ CollectIdle /\ RetryIdle /\ BucketIdle /\ AsyncIdle
    /\ SyncIdle /\ GraphIdle /\ SummaryIdle

SpecRegion == InitRegion /\ [][NextRegion]_vars

SpecSync == InitSync /\ [][NextSync]_vars

\* the wall clock keeps advancing and a caller inside the while loop keeps
\* executing it
FairSpecAsync ==
    /\ SpecAsync
    /\ WF_vars(Tick)
    /\ \A c \in Callers : WF_vars(Iterate(c))

(***************************************************************************)
(* Claims about the collection orchestrator                                *)
(***************************************************************************)
Failing(t) == taskOut[t].provider \notin {"ok", "empty"}

\* number of results of the returned map for (region, resource_type)
ReturnedFor(rg, rt) ==
    IF rg \in DOMAIN results_by_region
    THEN Cardinality({i \in 1..Len(results_by_region[rg]) :
                         results_by_region[rg][i].resource_type = rt})
    ELSE 0

\* C1: whichever tasks fail, collect_all returns without raising, and the
\* returned map holds exactly one result for every non-failing
\* (region, type) task with a registered collector, none for a failing
\* task, and nothing else.
C1_PartialFailureIsolation ==
    /\ mgrPc # "raised"
    /\ mgrPc = "returned" =>
         /\ \A t \in TaskIds :
               ReturnedFor(Tasks[t].region, Tasks[t].resource_type)
                   = IF Failing(t) THEN 0 ELSE 1
         /\ \A rg \in DOMAIN results_by_region :
               \A i \in 1..Len(results_by_region[rg]) :
                  LET r == results_by_region[rg][i]
                  IN  /\ r.region = rg
                      /\ \E t \in TaskIds :
                            /\ Tasks[t] = [region |-> rg,
                                           resource_type |-> r.resource_type]
                            /\ ~Failing(t)

C1_Witness ==
    /\ mgrPc = "returned"
    /\ \E t \in TaskIds : Failing(t)
    /\ \E t \in TaskIds : ~Failing(t)
    /\ "plugin" \in Range(resource_types)

\* C2: collect() never raises for a provider failure: whenever
\* collect_resources raised, collect returned a CollectorResult with
\* success = false and the captured error message.
C2_CollectNeverRaises ==
    \A t \in TaskIds :
        (taskPc[t] = "done" /\ Failing(t)) =>
            /\ taskOut[t].collect.kind = "return"
            /\ taskOut[t].collect.result.success = FALSE
            /\ taskOut[t].collect.result.error # None

InFlight == {t \in TaskIds : taskPc[t] = "running"}

\* C4: at every moment of a collect_all call at most max_concurrent tasks
\* have started and not yet finished.
C4_ConcurrencyBound == Cardinality(InFlight) <= max_concurrent

C4_Witness ==
    /\ Cardinality(InFlight) = max_concurrent
    /\ \E t \in TaskIds : taskPc[t] = "pending"
    /\ \E t \in TaskIds : taskPc[t] = "done"

(***************************************************************************)
(* Claims about the retry wrapper                                          *)
(***************************************************************************)
\* what the wrapped function did on the most recent attempt
LastFunc == Func(retryFunc, history[Len(history)])

RetryDone == retryPc \in {"returned", "raised"}

\* remote error codes that are retriable and not throttling codes
C3_TransientCodes == {"ServiceUnavailable", "InternalError", "InternalFailure"}

\* C3: a collector's remote call is made under the retry policy: when the
\* first remote call inside _paginated_call fails with a retriable,
\* non-rate-limit code and a further attempt is allowed, the call is
\* invoked again.
C3_PaginatedCallRetried ==
    (/\ retryFunc = "_paginated_call"
     /\ RetryDone
     /\ max_attempts >= 2
     /\ Len(history) >= 1
     /\ history[1].type = "ClientError"
     /\ history[1].code \in C3_TransientCodes)
        => Len(history) >= 2

\* an error that is not classified retriable: a ClientError whose code is
\* outside RETRIABLE_ERROR_CODES, or an exception that is not a ClientError
C9_NotRetriable(e) ==
    /\ e.type # "ok"
    /\ e.type = "ClientError" => e.code \notin RETRIABLE_ERROR_CODES

\* C9: when an attempt fails with an error that is not classified
\* retriable, the wrapper raises that same error right away: the failing
\* invocation is the last one, and no backoff delay follows it (on the
\* first attempt: one invocation, zero delays), whatever max_attempts is.
C9_NonRetriablePropagates ==
    (Len(history) >= 1 /\ C9_NotRetriable(LastFunc)) =>
        /\ retryPc = "raised"
        /\ raisedErr = LastFunc
        /\ Len(history) = attempt + 1
        /\ delays = Len(history) - 1

C9_Witness ==
    /\ retryPc = "raised"
    /\ retryFunc = "operation"
    /\ max_attempts >= 2
    /\ Len(history) = 1
    /\ LastFunc = ClientError("AccessDenied")

\* the throttling codes the claim names
C10_ThrottlingCodes ==
    {"RequestLimitExceeded", "Throttling", "ThrottlingException",
     "TooManyRequestsException"}

\* C10: when an attempt fails with a rate-limit error code, the wrapper
\* raises RateLimitException at once: no further invocation, no delay.
C10_RateLimitRaisedAtOnce ==
    (/\ Len(history) >= 1
     /\ LastFunc.type = "ClientError"
     /\ LastFunc.code \in C10_ThrottlingCodes) =>
        /\ retryPc = "raised"
        /\ raisedErr = RateLimitException
        /\ delays = Len(history) - 1

(***************************************************************************)
(* Claims about the rate limiters                                          *)
(***************************************************************************)
\* C5: in a window of T ticks that begins with no caller waiting, the
\* acquisitions that return true number at most burst + rate * T
\* (counted here in token units).
C5_WindowConservation ==
    winOpen =>
        winAdmitted * TokenScale <= burst * TokenScale + rate * winTicks

C5_Witness ==
    /\ winOpen
    /\ winTicks >= 1
    /\ winAdmitted >= 2
    /\ winAdmitted * TokenScale = burst * TokenScale + rate * winTicks

\* C6: refill-and-decrement is atomic in both limiter classes: under
\* every interleaving of callers the token count never becomes negative
\* and the total cost admitted never exceeds the initial tokens plus the
\* tokens refilled.
C6_AtomicRefillAndDecrement ==
    /\ tokens >= 0
    /\ admitted <= burst * TokenScale + rate * clock

\* C7: a blocking AsyncRateLimiter.acquire caller that is waiting for
\* tokens to refill does not hold the limiter's lock.
C7_WaiterReleasesLock ==
    \A c \in Callers : cpc[c] = "spin" => lock # c

\* C8: a blocking acquire(cost) returns true only after cost tokens were
\* available and have been deducted, and it eventually returns, for every
\* cost >= 1 and every limiter with rate > 0 and an explicit or default
\* burst.
C8_BlockingAcquireReturns ==
    /\ [][\A c \in Callers :
            (cresult[c] # "True" /\ cresult'[c] = "True") =>
                /\ Refill(tokens, sinceUpdate) >= ccost[c] * TokenScale
                /\ tokens' = Refill(tokens, sinceUpdate)
                               - ccost[c] * TokenScale]_vars
    /\ \A c \in Callers :
         (cpc[c] = "entered" /\ cblocking[c])
             ~> (cpc[c] = "done" /\ cresult[c] = "True")

\* the failures the wrapper retries: retriable and not rate-limit errors
C11_RetriedFailure(e) ==
    /\ e.type = "ClientError"
    /\ e.code \in RETRIABLE_ERROR_CODES \ RATE_LIMIT_CODES

\* every invocation before the last one failed with a retried failure
C11_EarlierAllRetried ==
    \A i \in 1..(Len(history) - 1) :
        C11_RetriedFailure(Func(retryFunc, history[i]))

\* C11: for max_attempts >= 1 the wrapper never invokes the operation more
\* than max_attempts times; it takes exactly one backoff delay between
\* consecutive attempts and none after the final one; every attempt before
\* the last failed with a retriable error that is not a rate-limit error;
\* it returns only on the first success; and when every attempt fails with
\* such an error it stops after exactly max_attempts attempts by raising
\* RetryExhausted.
C11_RetryLoop ==
    max_attempts >= 1 =>
        /\ Len(history) <= max_attempts
        /\ retryPc = "call" => delays = Len(history)
        /\ retryPc # "call" => /\ Len(history) >= 1
                               /\ delays = Len(history) - 1
        /\ C11_EarlierAllRetried
        /\ retryPc = "returned" => LastFunc = Ok
        /\ (retryPc = "raised" /\ C11_RetriedFailure(LastFunc))
               => /\ raisedErr = RetryExhausted
                  /\ Len(history) = max_attempts
        /\ (retryPc = "raised" /\ raisedErr = RetryExhausted)
               => /\ Len(history) = max_attempts
                  /\ C11_RetriedFailure(LastFunc)

\* every one of max_attempts >= 2 attempts failed with a retried failure and
\* RetryExhausted was raised after max_attempts - 1 delays
C11_Witness ==
    /\ max_attempts >= 2
    /\ retryPc = "raised"
    /\ raisedErr = RetryExhausted
    /\ Len(history) = max_attempts
    /\ delays = max_attempts - 1
    /\ \A i \in 1..Len(history) : C11_RetriedFailure(history[i])

\* C12: the RetryExhausted raised by the wrapper after the last attempt has
\* error_code RETRY_EXHAUSTED and carries, in its details, retry_attempts =
\* the attempts it was constructed with and the last underlying error.
C12_RetryExhaustedCarriesDetails ==
    (retryPc = "raised" /\ raisedErr = RetryExhausted)
        => /\ raisedExc.error_code = "RETRY_EXHAUSTED"
           /\ <<"retry_attempts", ToString(max_attempts)>> \in raisedExc.details
           /\ <<"last_error", LastErrorText>> \in raisedExc.details

(***************************************************************************)
(* Claims about the topology graph                                         *)
(***************************************************************************)
\* build_graph has returned at least once
Built == gPc \in {"built", "rebuilt", "analyzed"}

\* the foreign keys the linking rules read from node n of the built graph
ForeignKeys(n) ==
    LET d == graph.nodes[n]
        rt == Get(d, "resource_type")
    IN  (IF rt = SUBNET THEN {d["vpc_id"]} ELSE {})
        \cup (IF rt = EC2_INSTANCE
              THEN {d["subnet_id"]} \cup Range(d["data"].security_groups)
              ELSE {})
        \cup (IF rt = INTERNET_GATEWAY
              THEN Range(d["attached_vpcs"]) ELSE {})

\* C13: every edge of the built graph has both endpoints among the nodes
\* the node pass added, and the edge pass adds no node: a foreign key that
\* references an id without a node creates neither an edge nor a node.
C13_EdgesOnlyBetweenNodes ==
    Built =>
        /\ DOMAIN graph.nodes = nodePassNodes
        /\ \A e \in DOMAIN graph.edges :
              e[1] \in nodePassNodes /\ e[2] \in nodePassNodes
        /\ \A n \in DOMAIN graph.nodes :
              \A k \in ForeignKeys(n) \ nodePassNodes :
                  <<k, n>> \notin DOMAIN graph.edges

\* a built graph one of whose nodes carries a foreign key to an id that has
\* no node
C13_Witness ==
    /\ Built
    /\ \E n \in DOMAIN graph.nodes :
          \E k \in ForeignKeys(n) : k \in Ids \ nodePassNodes

\* the record ids in the resources of the successful results
SuccessfulRecordIds ==
    {gInput[i].resources[j].id :
        <<i, j>> \in {p \in (1..Len(gInput)) \X (1..MaxRecords) :
                        /\ gInput[p[1]].success
                        /\ p[2] <= Len(gInput[p[1]].resources)}}

\* C14: after build_graph the node set is the set of record ids in the
\* resources of the successful results, whatever registered resource type
\* the results have.
C14_NodesAreSuccessfulRecordIds ==
    Built => DOMAIN graph.nodes = SuccessfulRecordIds

\* the input with the failed results removed
WithoutFailed == SelectSeq(gInput, LAMBDA result : result.success)

\* C15: results with success = false contribute nothing: the built graph
\* has the node set and the edge set of the graph built from the input
\* with the failed results removed.
C15_FailedResultsContributeNothing ==
    Built =>
        LET h == build_relationships(NodePass(NewDiGraph, WithoutFailed, 1))
        IN  /\ DOMAIN graph.nodes = DOMAIN h.nodes
            /\ EdgeTriples(graph) = EdgeTriples(h)

\* a built graph with a node, from an input with a failed result that
\* carries a record of a handled type whose id is not a node
C15_Witness ==
    /\ Built
    /\ DOMAIN graph.nodes # {}
    /\ \E i \in 1..Len(gInput) :
          /\ ~gInput[i].success
          /\ gInput[i].resource_type \in HandledTypes
          /\ gInput[i].resources[1].id \notin DOMAIN graph.nodes

\* the edges the four linking rules derive from the nodes of the built
\* graph
RuleEdges ==
    LET N == DOMAIN graph.nodes
        T(n) == Get(graph.nodes[n], "resource_type")
    IN  {<<graph.nodes[s]["vpc_id"], s, CONTAINS>> :
            s \in {n \in N : T(n) = SUBNET /\ graph.nodes[n]["vpc_id"] \in N}}
        \cup
        {<<graph.nodes[i]["subnet_id"], i, HOSTS>> :
            i \in {n \in N : /\ T(n) = EC2_INSTANCE
                             /\ graph.nodes[n]["subnet_id"] \in N}}
        \cup
        {<<p[1], p[2], ATTACHED_TO>> :
            p \in {q \in N \X N :
                     /\ T(q[2]) = INTERNET_GATEWAY
                     /\ q[1] \in Range(graph.nodes[q[2]]["attached_vpcs"])}}
        \cup
        {<<p[1], p[2], PROTECTS>> :
            p \in {q \in N \X N :
                     /\ T(q[2]) = EC2_INSTANCE
                     /\ q[1] \in
                          Range(graph.nodes[q[2]]["data"].security_groups)}}

\* C16: the edge set of a built graph is exactly the set the four linking
\* rules derive, and nothing else.
C16_EdgeSetIsRuleSet ==
    Built => EdgeTriples(graph) = RuleEdges

\* C17: when two linking rules derive an edge for the same ordered pair of
\* nodes with different relationships, the built graph holds both edges.
C17_ParallelEdgesKept ==
    Built =>
        \A t1 \in RuleEdges, t2 \in RuleEdges :
            (t1[1] = t2[1] /\ t1[2] = t2[2] /\ t1[3] # t2[3])
                => {t1, t2} \subseteq EdgeTriples(graph)

C19_DensityInUnitInterval ==
    (report.call = "get_basic_metrics" /\ report.status = "returned") =>
        /\ 0 <= report.density[1]
        /\ report.density[1] <= report.density[2]
        /\ report.total_edges <= report.total_nodes * (report.total_nodes - 1)
        /\ report.total_nodes <= 1 => report.density[1] = 0

\* C20: analysis of a graph without nodes does not raise, and its
\* connectivity report says is_strongly_connected = true with
\* component_count 0 and component sizes 0.
C20_EmptyGraphAnalysis ==
    (/\ gPc = "analyzed"
     /\ DOMAIN graph.nodes = {}
     /\ report.call \in {"analyze", "get_basic_metrics",
                         "analyze_connectivity"}) =>
        /\ report.status = "returned"
        /\ report.call \in {"analyze", "analyze_connectivity"} =>
              /\ report.is_strongly_connected = "True"
              /\ report.component_count = 0
              /\ report.largest_component_size = 0
              /\ report.smallest_component_size = 0

\* the nodes of the graph no edge touches
Untouched ==
    {n \in DOMAIN graph.nodes :
        \A e \in DOMAIN graph.edges : e[1] # n /\ e[2] # n}

\* C21: find_isolated_resources returns exactly the nodes whose in-degree
\* and out-degree are both 0, each once: a node with an inbound or an
\* outbound edge is never reported and every node without an edge is.
C21_IsolatedAreExactlyUntouched ==
    (gPc = "analyzed" /\ report.call = "find_isolated_resources") =>
        /\ Range(report.isolated) = Untouched
        /\ Len(report.isolated) = Cardinality(Untouched)

\* find_isolated_resources ran on a graph with an edge from a node without
\* inbound edges to another node without outbound edges, and reported
\* neither
C21_Witness ==
    /\ gPc = "analyzed"
    /\ report.call = "find_isolated_resources"
    /\ report.isolated = <<>>
    /\ \E e \in DOMAIN graph.edges :
          /\ e[1] # e[2]
          /\ in_degree(graph, e[1]) = 0
          /\ out_degree(graph, e[2]) = 0

\* the allow-all wildcards
C22_Wildcards == {"0.0.0.0/0", "::/0"}

\* the (rule, range list, range) positions of security-group node n whose
\* CIDR is a wildcard
C22_WildcardRanges(n) ==
    LET rules == graph.nodes[n]["data"].ingress_rules
    IN  UNION {UNION {{<<j, f, k>> :
                         k \in {x \in DOMAIN rules[j][f] :
                                  rules[j][f][x] \in C22_Wildcards}} :
                      f \in {"ip_ranges", "ipv6_ranges"}} :
               j \in DOMAIN rules}

\* C22: analyze_security_posture returns exactly one issue for every
\* (security-group node, inbound rule, source range) whose CIDR is
\* 0.0.0.0/0 or ::/0, naming the node and the rule's protocol and ports,
\* no issue for any other rule, and issues_found = the number of issues.
C22_OneIssuePerWildcardRange ==
    (gPc = "analyzed" /\ report.call = "analyze_security_posture") =>
        /\ report.issues_found = Len(report.issues)
        /\ \A i \in DOMAIN report.issues :
              /\ report.issues[i].security_group_id
                     \in NodesOfType(graph, SECURITY_GROUP)
              /\ \E rule \in Range(graph.nodes[
                       report.issues[i].security_group_id]["data"]
                           .ingress_rules) :
                     report.issues[i] =
                         Issue(report.issues[i].security_group_id, rule)
        /\ \A n \in NodesOfType(graph, SECURITY_GROUP) :
              Cardinality({i \in DOMAIN report.issues :
                              report.issues[i].security_group_id = n})
                  = Cardinality(C22_WildcardRanges(n))

TypeOf(n) == Get(graph.nodes[n], "resource_type")

\* C29: every edge's relationship agrees with the resource types of its
\* endpoints: contains VPC -> subnet, hosts subnet -> instance,
\* attached_to VPC -> internet gateway, protects security group ->
\* instance.
C29_RelationshipMatchesTypes ==
    Built =>
        \A e \in DOMAIN graph.edges :
            LET rel == graph.edges[e]
            IN  /\ rel = CONTAINS =>
                     TypeOf(e[1]) = VPC /\ TypeOf(e[2]) = SUBNET
                /\ rel = HOSTS =>
                     TypeOf(e[1]) = SUBNET /\ TypeOf(e[2]) = EC2_INSTANCE
                /\ rel = ATTACHED_TO =>
                     TypeOf(e[1]) = VPC /\ TypeOf(e[2]) = INTERNET_GATEWAY
                /\ rel = PROTECTS =>
                     /\ TypeOf(e[1]) = SECURITY_GROUP
                     /\ TypeOf(e[2]) = EC2_INSTANCE

\* C30: build_graph's output does not depend on the order of the results:
\* every permutation of the input gives the same nodes, the same node
\* attributes and the same edges.
C30_OrderIndependent ==
    Built =>
        \A f \in Permutations(1..Len(gInput)) :
            LET permuted == [i \in 1..Len(gInput) |-> gInput[f[i]]]
                h == build_relationships(NodePass(NewDiGraph, permuted, 1))
            IN  /\ h.nodes = graph.nodes
                /\ EdgeTriples(h) = EdgeTriples(graph)

\* C28: whatever max_attempts the configuration accepts, the wrapper has
\* invoked the operation at least once when it raises RetryExhausted.
C28_ExhaustedOnlyAfterACall ==
    (retryPc = "raised" /\ raisedErr = RetryExhausted) => Len(history) >= 1

\* the tasks whose value is a Collection Result
Gathered == {t \in TaskIds : taskOut[t].value.kind = "result"}

\* the Collection Results the tasks returned, in gather's order
GatheredResults ==
    SelectSeq([t \in TaskIds |-> taskOut[t].value],
              LAMBDA v : v.kind = "result")

\* a map of result lists as a map of result sets
AsSets(m) == [k \in DOMAIN m |-> Range(m[k])]

\* C24: the map collect_all returns has exactly the regions embedded in
\* the gathered results as keys, holds each result once and under its own
\* region, and is the same (as region -> set of results) for every order
\* in which the results are grouped.
C24_GroupingByEmbeddedRegion ==
    mgrPc = "returned" =>
        /\ DOMAIN results_by_region =
               {taskOut[t].value.result.region : t \in Gathered}
        /\ \A k \in DOMAIN results_by_region :
              /\ Range(results_by_region[k]) =
                     {taskOut[t].value.result :
                         t \in {u \in Gathered :
                                  taskOut[u].value.result.region = k}}
              /\ Len(results_by_region[k]) =
                     Cardinality({u \in Gathered :
                                     taskOut[u].value.result.region = k})
        /\ \A f \in Permutations(1..Len(GatheredResults)) :
              AsSets(GroupByRegion([i \in 1..Len(GatheredResults) |->
                                       GatheredResults[f[i]]],
                                   1, EmptyMap))
                  = AsSets(results_by_region)

\* collect_all returned a map without the region whose only task failed
\* and with another region
C24_Witness ==
    /\ mgrPc = "returned"
    /\ DOMAIN results_by_region # {}
    /\ \E t \in TaskIds :
          /\ taskOut[t].value.kind = "none"
          /\ \A u \in TaskIds \ {t} : Tasks[u].region # Tasks[t].region
          /\ Tasks[t].region \notin DOMAIN results_by_region

\* the resource records held by a list of results
RECURSIVE SumResources(_, _)
SumResources(rs, i) ==
    IF i > Len(rs) THEN 0 ELSE Len(rs[i].resources) + SumResources(rs, i + 1)

\* the sum of the values of a map of numbers
RECURSIVE SumValues(_)
SumValues(m) ==
    IF DOMAIN m = {} THEN 0
    ELSE LET k == CHOOSE x \in DOMAIN m : TRUE
         IN  m[k] + SumValues([j \in (DOMAIN m) \ {k} |-> m[j]])

\* C25: get_summary reports total_resources equal to the number of resource
\* records held by the results of the map, per-region and per-type counts
\* that each sum to total_resources, and total_regions equal to the number
\* of keys.
C25_SummaryCountsRecords ==
    sPc = "summarized" =>
        /\ summary.total_resources = SumResources(Flatten(sResults), 1)
        /\ SumValues(summary.resources_by_region) = summary.total_resources
        /\ SumValues(summary.resources_by_type) = summary.total_resources
        /\ summary.total_regions = Cardinality(DOMAIN sResults)

\* C26: during collect_region at most max_concurrent collector tasks have
\* started and not finished.
C26_RegionInFlightBounded ==
    rPc = "gathering" => Cardinality(RegionInFlight) <= rMaxConcurrent

\* C27: when every collector task eventually finishes, collect_all
\* eventually returns, and whenever it has returned all max_concurrent
\* permits are free, whether the tasks succeeded or failed.
C27_CollectAllReturnsWithPermitsFree ==
    /\ <>(mgrPc = "returned")
    /\ [](mgrPc = "returned" => semaphore = max_concurrent)

\* collect_all returned after more tasks than permits, one of which failed
C27_Witness ==
    /\ mgrPc = "returned"
    /\ semaphore = max_concurrent
    /\ Len(Tasks) > max_concurrent
    /\ \E t \in TaskIds :
          /\ taskOut[t].collect.kind = "raise"
          /\ taskOut[t].value.kind = "none"

====
